---- MODULE Spec2Model ----
(***************************************************************************)
(* Model of package smoother (wesmoother.go): one call of WESmoother,      *)
(* stepped statement group by statement group.                             *)
(*                                                                         *)
(* float64 values are modelled as exact rationals <<num, den>> in lowest   *)
(* terms with den > 0.  Go slices are functions over 0..len-1, so that     *)
(* every index of the model is the index of the source.  A runtime panic   *)
(* of the Go program is the terminal position pc = "panic".                *)
(***************************************************************************)
EXTENDS Integers, FiniteSets, Sequences, TLC

\* Longest series the model calls WESmoother with.
MaxLen == 3

----------------------------------------------------------------------------
(* Exact arithmetic standing for float64 *)

Abs(x) == IF x < 0 THEN -x ELSE x

RECURSIVE Gcd(_, _)
Gcd(a, b) == IF b = 0 THEN a ELSE Gcd(b, a % b)

RNorm(n, dn) ==
    LET g == Gcd(Abs(n), Abs(dn))
        s == IF dn < 0 THEN -1 ELSE 1
    IN  <<s * (n \div g), s * (dn \div g)>>

R(i) == <<i, 1>>
Zero == R(0)
One == R(1)

RNeg(a) == <<-a[1], a[2]>>

RAdd(a, b) ==
    LET g == Gcd(a[2], b[2])
    IN  RNorm(a[1] * (b[2] \div g) + b[1] * (a[2] \div g), (a[2] \div g) * b[2])

RSub(a, b) == RAdd(a, RNeg(b))

RMul(a, b) ==
    LET g1 == Gcd(Abs(a[1]), b[2])
        g2 == Gcd(Abs(b[1]), a[2])
    IN  <<(a[1] \div g1) * (b[1] \div g2), (a[2] \div g2) * (b[2] \div g1)>>

\* b is never zero where the model divides (the divisor is a positive pivot).
RDiv(a, b) == RMul(a, IF b[1] > 0 THEN <<b[2], b[1]>> ELSE <<-b[2], -b[1]>>)

RPos(a) == a[1] > 0

----------------------------------------------------------------------------
(* Go slices *)

ALen(a) == Cardinality(DOMAIN a)

\* make([]T, n) for n >= 0, zero-filled
Make(n, zero) == [i \in 0..(n - 1) |-> zero]

\* a[lo:hi]
Slice(a, lo, hi) == [i \in 0..(hi - lo - 1) |-> a[lo + i]]

\* Sum of f[i] for i in lo..hi (rationals)
RECURSIVE RSum(_, _, _)
RSum(f, lo, hi) == IF hi < lo THEN Zero ELSE RAdd(RSum(f, lo, hi - 1), f[hi])

----------------------------------------------------------------------------
(* sparse.CSR and gonum dense matrices as the source uses them *)

\* sparse.NewCSR(r, c, ia, ja, data): ia is the row-pointer slice, ja the
\* column-index slice.
NewCSR(r, c, ia, ja, data) ==
    [I |-> r, J |-> c, Indptr |-> ia, Ind |-> ja, Data |-> data]

\* The positions k of row i's stored entries, as (*CSR).ToDense walks them:
\* rows 0..len(Indptr)-2, and for a row Indptr[i] <= k < Indptr[i+1].
RowEntries(csr, i) ==
    IF i + 1 \in DOMAIN csr.Indptr /\ i \in DOMAIN csr.Indptr
    THEN csr.Indptr[i]..(csr.Indptr[i + 1] - 1)
    ELSE {}

\* (*CSR).ToDense panics when mat.NewDense is asked for a zero or negative
\* dimension, or when a stored entry lies outside the slices or the matrix.
ToDensePanics(csr) ==
    \/ csr.I <= 0
    \/ csr.J <= 0
    \/ \E i \in DOMAIN csr.Indptr : \E k \in RowEntries(csr, i) :
          \/ k \notin DOMAIN csr.Ind
          \/ k \notin DOMAIN csr.Data
          \/ i >= csr.I
          \/ csr.Ind[k] \notin 0..(csr.J - 1)

\* (*CSR).ToDense: an I x J zero matrix with Set(i, Ind[k], Data[k]) for every
\* stored entry; a later entry of the same cell overwrites an earlier one.
ToDense(csr) ==
    [i \in 0..(csr.I - 1) |-> [j \in 0..(csr.J - 1) |->
        LET ks == {k \in RowEntries(csr, i) : csr.Ind[k] = j}
        IN  IF ks = {} THEN Zero
            ELSE csr.Data[CHOOSE k \in ks : \A k2 \in ks : k2 <= k]]]

Rows(M) == ALen(M)
Cols(M) == IF Rows(M) = 0 THEN 0 ELSE ALen(M[0])

\* DTD.Mul(DDense.T(), DDense)
MulTD(Dm) ==
    [i \in 0..(Cols(Dm) - 1) |-> [j \in 0..(Cols(Dm) - 1) |->
        RSum([k \in 0..(Rows(Dm) - 1) |-> RMul(Dm[k][i], Dm[k][j])],
             0, Rows(Dm) - 1)]]

\* DTD.Scale(lambda, DTD)
Scale(f, M) == [i \in DOMAIN M |-> [j \in DOMAIN M[i] |-> RMul(f, M[i][j])]]

\* A.Add(EDense, DTD)
Add(M, N) == [i \in DOMAIN M |-> [j \in DOMAIN M[i] |-> RAdd(M[i][j], N[i][j])]]

----------------------------------------------------------------------------
(* wesmoother.go: speye, vecDiff, differenceMatrix *)

\* speye(n): the three slices it fills, and the call of sparse.NewCSR with
\* them in the order the source passes them (indices, then indptr).
speye(n) ==
    LET data == [i \in 0..(n - 1) |-> One]
        indices == [i \in 0..(n - 1) |-> i]
        indptr == [i \in 0..n |-> i]
    IN  NewCSR(n, n, indices, indptr, data)

\* vecDiff with its operands exchanged
vecDiffSwapped(a, b) == [i \in 0..(ALen(a) - 1) |-> RSub(b[i], a[i])]

vecDiff(a, b) == [i \in 0..(ALen(a) - 1) |-> RSub(a[i], b[i])]

\* The loop of differenceMatrix over coeffs: k rounds of
\* coeffs = vecDiff(coeffs[:len(coeffs)-1], coeffs[1:]).
RECURSIVE DiffRounds(_, _)
DiffRounds(coeffs, k) ==
    IF k = 0 THEN coeffs
    ELSE DiffRounds(vecDiff(Slice(coeffs, 0, ALen(coeffs) - 1),
                            Slice(coeffs, 1, ALen(coeffs))), k - 1)

\* coeffs of differenceMatrix after its first loop, for order >= 0.
Coeffs(order) ==
    DiffRounds([i \in 0..(2 * order) |-> IF i = order THEN One ELSE Zero], order)

\* differenceMatrix panics when a make is asked for a negative length (the
\* runtime's makeslice check) or a write falls outside its slice.
differenceMatrixPanics(n, order) ==
    \/ 2 * order + 1 < 0
    \/ (n - order) * n < 0
    \/ n - order + 1 < 0
    \/ (n - order) * (order + 1) > (n - order) * n

\* differenceMatrix(n, order) where it does not panic.  Entry idx of data and
\* indices is written by row idx \div (order+1), j = idx % (order+1); the
\* slices are nRows*n long and stay zero past the last write.
differenceMatrix(n, order) ==
    LET coeffs == Coeffs(order)
        nRows == n - order
        w == order + 1
        data == [idx \in 0..(nRows * n - 1) |->
                    IF idx < nRows * w THEN coeffs[idx % w] ELSE Zero]
        indices == [idx \in 0..(nRows * n - 1) |->
                    IF idx < nRows * w THEN (idx \div w) + (idx % w) ELSE 0]
        indptr == [i \in 0..nRows |-> i * w]
    IN  NewCSR(nRows, n, indptr, indices, data)

----------------------------------------------------------------------------
(* mat.SymDense and mat.Cholesky as WESmoother uses them *)

\* sym after the SetSym loop: only A's upper triangle (j >= i) is read.
CopyUpper(M) ==
    [i \in DOMAIN M |-> [j \in DOMAIN M |->
        IF i <= j THEN M[i][j] ELSE M[j][i]]]

\* The matrix left after eliminating the first row and column of a symmetric
\* matrix with pivot S[0][0] > 0 (its Schur complement).
Schur(S) ==
    [i \in 0..(Rows(S) - 2) |-> [j \in 0..(Rows(S) - 2) |->
        RSub(S[i + 1][j + 1], RDiv(RMul(S[0][i + 1], S[0][j + 1]), S[0][0]))]]

\* chol.Factorize(sym): the factorization exists exactly when every pivot is
\* strictly positive (in exact arithmetic, the pivots of the Cholesky factor
\* are the square roots of these).
RECURSIVE Factorize(_)
Factorize(S) ==
    IF Rows(S) = 0 THEN TRUE
    ELSE RPos(S[0][0]) /\ Factorize(Schur(S))

\* The solution of S * x = rhs by forward and back substitution against the
\* factor of S, for S that Factorize accepts.
RECURSIVE CholSolve(_, _)
CholSolve(S, rhs) ==
    IF Rows(S) = 0 THEN <<>>
    ELSE LET n == Rows(S)
             p == S[0][0]
             r == [i \in 0..(n - 2) |->
                     RSub(rhs[i + 1], RDiv(RMul(S[0][i + 1], rhs[0]), p))]
             xt == CholSolve(Schur(S), r)
             x0 == RDiv(RSub(rhs[0],
                             RSum([j \in 0..(n - 2) |-> RMul(S[0][j + 1], xt[j])],
                                  0, n - 2)), p)
         IN  [i \in 0..(n - 1) |-> IF i = 0 THEN x0 ELSE xt[i - 1]]

----------------------------------------------------------------------------
(* One call WESmoother(y, lambda, d) *)

VARIABLES
    y,          \* the caller's slice (its backing array)
    y0,         \* the contents of y when the call was made
    lambda,     \* argument lambda
    d,          \* argument d
    pc,         \* position in WESmoother: the line about to run
    E, D,       \* the CSR matrices of lines 95-96
    EDense, DDense,   \* their dense copies, lines 99-100
    A,          \* the assembled dense matrix, lines 103-111
    sym,        \* the SymDense handed to Factorize, lines 112-120
    z,          \* the slice z of line 130 (its backing array)
    err,        \* the error SolveVecTo returned, line 133
    retNil,     \* the call has returned a nil series
    retSeries,  \* the series the call returned
    retErr      \* the error the call returned ("nil": none)

vars == <<y, y0, lambda, d, pc, E, D, EDense, DDense, A, sym, z, err,
          retNil, retSeries, retErr>>

\* Sample values of a series, smoothing strengths and orders the call is made
\* with; the orders include the invalid ones on both sides.
Vals == {R(-2), R(1), R(5)}
Lambdas == {R(-1), <<-1, 2>>, Zero, <<1, 2>>, One, R(2)}
Orders == (-1)..(MaxLen + 1)
Series == UNION {[0..(n - 1) -> Vals] : n \in 1..MaxLen}

NoCSR == NewCSR(0, 0, <<>>, <<>>, <<>>)
CholeskyFailed == "cholesky decomposition failed"

\* m := len(y), line 93
m == ALen(y)

Init ==
    /\ y \in Series
    /\ y0 = y
    /\ lambda \in Lambdas
    /\ d \in Orders
    /\ pc = "L95"
    /\ E = NoCSR /\ D = NoCSR
    /\ EDense = <<>> /\ DDense = <<>> /\ A = <<>> /\ sym = <<>>
    /\ z = <<>>
    /\ err = "nil"
    /\ retNil = TRUE /\ retSeries = <<>> /\ retErr = "nil"

\* line 95: E := speye(m)
Speye ==
    /\ pc = "L95"
    /\ E' = speye(m)
    /\ pc' = "L96"
    /\ UNCHANGED <<y, y0, lambda, d, D, EDense, DDense, A, sym, z, err,
                   retNil, retSeries, retErr>>

\* line 96: D := differenceMatrix(m, d), which returns
DifferenceMatrix ==
    /\ pc = "L96"
    /\ ~differenceMatrixPanics(m, d)
    /\ D' = differenceMatrix(m, d)
    /\ pc' = "L99"
    /\ UNCHANGED <<y, y0, lambda, d, E, EDense, DDense, A, sym, z, err,
                   retNil, retSeries, retErr>>

\* line 96: differenceMatrix(m, d) panics (lines 60, 68-70)
DifferenceMatrixPanic ==
    /\ pc = "L96"
    /\ differenceMatrixPanics(m, d)
    /\ pc' = "panic"
    /\ UNCHANGED <<y, y0, lambda, d, E, D, EDense, DDense, A, sym, z, err,
                   retNil, retSeries, retErr>>

\* line 99: EDense := mat.DenseCopyOf(E.ToDense())
DenseE ==
    /\ pc = "L99"
    /\ IF ToDensePanics(E)
       THEN pc' = "panic" /\ UNCHANGED EDense
       ELSE pc' = "L100" /\ EDense' = ToDense(E)
    /\ UNCHANGED <<y, y0, lambda, d, E, D, DDense, A, sym, z, err,
                   retNil, retSeries, retErr>>

\* line 100: DDense := mat.DenseCopyOf(D.ToDense())
DenseD ==
    /\ pc = "L100"
    /\ ~ToDensePanics(D)
    /\ DDense' = ToDense(D)
    /\ pc' = "L103"
    /\ UNCHANGED <<y, y0, lambda, d, E, D, EDense, A, sym, z, err,
                   retNil, retSeries, retErr>>

\* line 100: D.ToDense() panics (D has no rows)
DenseDPanic ==
    /\ pc = "L100"
    /\ ToDensePanics(D)
    /\ pc' = "panic"
    /\ UNCHANGED <<y, y0, lambda, d, E, D, EDense, DDense, A, sym, z, err,
                   retNil, retSeries, retErr>>

\* lines 103-111: A = EDense + lambda * (DDense' * DDense)
Assembled == Add(EDense, Scale(lambda, MulTD(DDense)))

Assemble ==
    /\ pc = "L103"
    /\ A' = Assembled
    /\ pc' = "L112"
    /\ UNCHANGED <<y, y0, lambda, d, E, D, EDense, DDense, sym, z, err,
                   retNil, retSeries, retErr>>

\* lines 112-120: sym gets the upper triangle of A
CopySym ==
    /\ pc = "L112"
    /\ sym' = CopyUpper(A)
    /\ pc' = "L123"
    /\ UNCHANGED <<y, y0, lambda, d, E, D, EDense, DDense, A, z, err,
                   retNil, retSeries, retErr>>

\* lines 123-125: chol.Factorize(sym) succeeds
FactorizeOk ==
    /\ pc = "L123"
    /\ Factorize(sym)
    /\ pc' = "L130"
    /\ UNCHANGED <<y, y0, lambda, d, E, D, EDense, DDense, A, sym, z, err,
                   retNil, retSeries, retErr>>

\* lines 123-127: chol.Factorize(sym) fails: return nil, errors.New(...)
FactorizeFail ==
    /\ pc = "L123"
    /\ ~Factorize(sym)
    /\ retNil' = TRUE
    /\ retSeries' = <<>>
    /\ retErr' = CholeskyFailed
    /\ pc' = "returned"
    /\ UNCHANGED <<y, y0, lambda, d, E, D, EDense, DDense, A, sym, z, err>>

\* z sized to the rows of the difference matrix instead of m
MakeZRows == Make(Rows(DDense), Zero)

\* line 130: z := make([]float64, m)
MakeZ == Make(m, Zero)

\* x built over y, as b is
XBackingAliased == "y"

\* lines 131-132: the slice each VecDense is a view of ("y" or "z")
BBacking == "y"
XBacking == "z"

\* lines 130-133: SolveVecTo(x, b) copies b into x and solves in place in x,
\* that is in x's backing slice, element by element.  It returns nil, or a
\* Condition error when the condition number gonum estimated in floating
\* point for the factorized matrix exceeds its tolerance; the solution is
\* written in both cases.  The estimate is not a function of the exact
\* values, so the outcome is a choice.
SolveVecTo(e) ==
    /\ pc = "L130"
    /\ LET zbuf == MakeZ
           rhs == IF BBacking = "y" THEN y ELSE zbuf
           sol == CholSolve(sym, rhs)
       IN  /\ z' = IF XBacking = "z"
                   THEN [i \in DOMAIN zbuf |-> sol[i]] ELSE zbuf
           /\ y' = IF XBacking = "y"
                   THEN [i \in DOMAIN y |-> sol[i]] ELSE y
    /\ err' = e
    /\ pc' = "L135"
    /\ UNCHANGED <<y0, lambda, d, E, D, EDense, DDense, A, sym,
                   retNil, retSeries, retErr>>

SolveOk == SolveVecTo("nil")
SolveIllConditioned == SolveVecTo("matrix singular or near-singular")

\* line 135: return z, err
Return ==
    /\ pc = "L135"
    /\ retNil' = FALSE
    /\ retSeries' = z
    /\ retErr' = err
    /\ pc' = "returned"
    /\ UNCHANGED <<y, y0, lambda, d, E, D, EDense, DDense, A, sym, z, err>>

Next ==
    \/ Speye
    \/ DifferenceMatrix
    \/ DifferenceMatrixPanic
    \/ DenseE
    \/ DenseD
    \/ DenseDPanic
    \/ Assemble
    \/ CopySym
    \/ FactorizeOk
    \/ FactorizeFail
    \/ SolveOk
    \/ SolveIllConditioned
    \/ Return

Spec == Init /\ [][Next]_vars

----------------------------------------------------------------------------
(* What the properties below are stated with *)

ValidOrder == 0 <= d /\ d < ALen(y0)
LambdaNonNeg == lambda[1] >= 0
Terminated == pc \in {"returned", "panic"}
Succeeded == pc = "returned" /\ retErr = "nil" /\ ~retNil

\* The n x n identity matrix
Identity(n) == [i \in 0..(n - 1) |-> [j \in 0..(n - 1) |->
                   IF i = j THEN One ELSE Zero]]

RECURSIVE Binomial(_, _)
Binomial(n, k) ==
    IF k = 0 \/ k = n THEN 1
    ELSE IF k < 0 \/ k > n THEN 0
    ELSE Binomial(n - 1, k - 1) + Binomial(n - 1, k)

\* (-1)^(order-j) * C(order, j)
StencilCoeff(order, j) ==
    R((IF (order - j) % 2 = 0 THEN 1 ELSE -1) * Binomial(order, j))

\* The (n-order) x n matrix with the order-th difference stencil of row i in
\* columns i..i+order and zero elsewhere
StencilMatrix(n, order) ==
    [i \in 0..(n - order - 1) |-> [j \in 0..(n - 1) |->
        IF i <= j /\ j <= i + order THEN StencilCoeff(order, j - i) ELSE Zero]]

IsSymmetric(S) == \A i \in DOMAIN S : \A j \in DOMAIN S : S[i][j] = S[j][i]

\* x' S x
QuadForm(S, x) ==
    LET n == Rows(S)
    IN  RSum([i \in 0..(n - 1) |->
                 RSum([j \in 0..(n - 1) |-> RMul(RMul(x[i], S[i][j]), x[j])],
                      0, n - 1)],
             0, n - 1)

\* The non-zero vectors of length n with entries -1, 0, 1
TestVectors(n) ==
    {x \in [0..(n - 1) -> {R(-1), Zero, One}] : \E i \in 0..(n - 1) : x[i] # Zero}

----------------------------------------------------------------------------
(* Properties *)

\* C1 (identity law): a call with lambda = 0 and a valid order ends by
\* returning, without error, a series equal to y element by element.
IdentityLaw ==
    (Terminated /\ lambda = Zero /\ ValidOrder)
        => (Succeeded /\ retSeries = y0)

\* C2 (order validation): a call with d < 0 or d >= len(y) ends by returning
\* an InvalidOrder error and no series, not by a panic, and no matrix has
\* been built when it ends.
InvalidOrderReported ==
    (Terminated /\ ~ValidOrder)
        => /\ pc = "returned" /\ retNil /\ retErr = "InvalidOrder"
           /\ E = NoCSR /\ D = NoCSR /\ EDense = <<>> /\ DDense = <<>>

\* C3 (lambda validation): a call with a valid order and lambda < 0 ends by
\* returning an InvalidLambda error and no series.
InvalidLambdaReported ==
    (Terminated /\ ValidOrder /\ ~LambdaNonNeg)
        => (pc = "returned" /\ retNil /\ retErr = "InvalidLambda")

\* C4 (no partial result): a call that returns either returns a complete
\* series and no error, or an error and a nil series.
NoPartialResult ==
    pc = "returned"
        => \/ retErr = "nil" /\ ~retNil /\ ALen(retSeries) = ALen(y0)
           \/ retErr # "nil" /\ retNil

\* C5 (symmetry and positive-definiteness): for a valid order and
\* lambda >= 0 the matrix handed to Factorize is symmetric, has x'Ax > 0 for
\* every non-zero x (here: every non-zero x over -1, 0, 1), is accepted by
\* Factorize, and the call does not return the factorization error.
SymmetricPositiveDefinite ==
    (ValidOrder /\ LambdaNonNeg)
        => /\ pc = "L123" =>
                 /\ IsSymmetric(sym)
                 /\ \A x \in TestVectors(Rows(sym)) : RPos(QuadForm(sym, x))
                 /\ Factorize(sym)
           /\ pc = "returned" => retErr # CholeskyFailed

\* C6 (single-value series): the call with y = [5.0], d = 0 and any
\* lambda >= 0 returns the series [5.0].
SingleValueSeries ==
    (Terminated /\ y0 = [i \in {0} |-> R(5)] /\ d = 0 /\ LambdaNonNeg)
        => (pc = "returned" /\ ~retNil /\ retSeries = y0)

\* C7 (length preservation): a call on a valid input (lambda >= 0, valid
\* order) that succeeds returns a series of exactly len(y) elements.
LengthPreservation ==
    (Succeeded /\ ValidOrder /\ LambdaNonNeg)
        => ALen(retSeries) = ALen(y0)

\* C7 witness: a successful call on a series of three elements with order 2.
LengthPreservationWitness ==
    Succeeded /\ ALen(y0) = 3 /\ d = 2 /\ RPos(lambda) /\ ALen(retSeries) = 3

\* C8 (input immutability): at every point of a call, whether it goes on to
\* succeed, fail or panic, the caller's series holds the values it held when
\* the call was made.
InputImmutable == y = y0

\* C8 witness: the solver has run with y as its right-hand side and the call
\* has returned a series that differs from y, which still holds its values.
InputImmutableWitness ==
    pc = "returned" /\ ~retNil /\ retSeries # y0 /\ y = y0 /\ ALen(y0) = 3

\* C9 (difference operator): for a valid order the dense difference matrix
\* is the (m-d) x m stencil matrix of signed binomial coefficients, and the
\* m x m identity for d = 0.
DifferenceOperator ==
    pc \in {"L103", "L112", "L123", "L130", "L135", "returned"}
        => /\ Rows(DDense) = ALen(y0) - d
           /\ Cols(DDense) = ALen(y0)
           /\ DDense = StencilMatrix(ALen(y0), d)
           /\ d = 0 => DDense = Identity(ALen(y0))

\* C9 witness: the second-difference operator of a series of three elements
\* has been built, its one row being 1, -2, 1.
DifferenceOperatorWitness ==
    /\ pc = "L103"
    /\ ALen(y0) = 3
    /\ d = 2
    /\ DDense = [i \in {0} |-> [j \in 0..2 |-> IF j = 1 THEN R(-2) ELSE One]]

\* C10 (assembled system): the matrix WESmoother assembles is
\* I + lambda * D'D with I the full m x m identity, and the dense identity
\* term has 1 on each of its m diagonal positions.
AssembledSystem ==
    pc = "L112"
        => /\ EDense = Identity(ALen(y0))
           /\ A = Add(Identity(ALen(y0)), Scale(lambda, MulTD(DDense)))

====
